---------------------------- MODULE Spec2Model ----------------------------
(***************************************************************************)
(* The LSIF graph builder of src/src/lsif/__init__.py: index() walks the   *)
(* files of a project, asks jedi for the definition and reference          *)
(* occurrences of each file and writes vertex and edge records to a        *)
(* writer.  jedi and the file system are the environment: what they yield  *)
(* is drawn nondeterministically, one item at a time, as index() consumes  *)
(* it.                                                                     *)
(***************************************************************************)
EXTENDS Integers, Sequences, FiniteSets, TLC

(* ------------------------------ bounds -------------------------------- *)

\* what the environment yields in one run: the files of
\* project_path.glob("**/*.py") and the occurrences (definitions and
\* references) jedi finds in them, counted together
MaxInputs == 5
\* candidates that one goto() call returns
MaxCands == 2

(* --------------------------- input domains ---------------------------- *)

None == "<None>"
Names == {"f", "g"}
\* jedi's Name.full_name is a dotted name or None; Name.name is a string
FullNames == Names \cup {None}
ShortNames == {"f", ""}
\* (line, column) pairs of jedi, or None
Positions == {<<1, 0>>}
Files == {"a.py", "b.py"}
Cwd == "/cwd"
\* project_path as __main__ passes it: Path(args.project), relative by default
ProjectPath == [root |-> "", rel |-> "tests/examples/beta_two_files"]

\* Python's truth value of a str or None
Truthy(v) == v \notin {None, ""}
\* a (line, column) pair that is missing: jedi returns None
NoPos == <<>>

(* ------------------------------ state --------------------------------- *)

VARIABLES
    pc,                            \* position of index() in its code
    out,                           \* what writer.write() received, in order
    count,                         \* _get_next_id: value of the next yield
    project_path,
    project_node,                  \* id of the ProjectNode
    names_to_result_sets,          \* def_name -> id of its ResultSetNode
    module_path_to_document_node,  \* absolute path -> its DocumentNode
    document_ids,
    document_node,                 \* DocumentNode of the file being visited
    contained_ranges,              \* the RangeNodes of the file being visited
    visits,                        \* history: absolute path of each file visited
    log                            \* history: what jedi yielded, in order

vars == <<pc, out, count, project_path, project_node, names_to_result_sets,
          module_path_to_document_node, document_ids, document_node,
          contained_ranges, visits, log>>

(* ------------------------ identifier allocator ------------------------ *)

IGNORE_ID == -1

\* _get_next_id: count = 1
FirstId == 1

\* one turn of the generator's loop: count += 1.  GenStepStuck is the
\* faulty generator that never counts up
GenStepStuck(c) == c
GenStep(c) == c + 1

\* the value of the k-th next() after the generator stood at c (k = 0: the
\* next one)
RECURSIVE NthId(_, _)
NthId(c, k) == IF k = 0 THEN c ELSE NthId(GenStep(c), k - 1)

\* BaseNode.__init__: self.id = id or next(self.__id_generator); NoId is the
\* default, id=None
NoId == 0
BaseNodeId(id, c) == IF id # NoId THEN id ELSE c

(* ------------------------------ paths --------------------------------- *)

\* a path is its root ("" when relative) and the part below it
Path(root, rel) == [root |-> root, rel |-> rel]
absolute(p) == IF p.root = "" THEN [p EXCEPT !.root = Cwd] ELSE p
as_uri(p) == <<"file://", p.root, p.rel>>

(* ------------------------------ nodes --------------------------------- *)

\* _base_fields and each class's _fields
BaseFields == {"label", "type", "id"}
Fields(label) ==
    CASE label = "metaData" -> {"version", "positionEncoding", "projectRoot"}
      [] label = "project" -> {"label", "kind"}
      [] label = "document" -> {"label", "languageId", "uri"}
      [] label = "resultSet" -> {}
      [] label = "range" -> {"start", "end", "document"}
      [] label = "hoverResult" -> {"result"}
      [] label = "definitionResult" -> {}
      [] label = "referenceResult" -> {}
      [] label = "contains" -> {"inVs", "outV"}
      [] label = "item" -> {"document", "inVs", "outV"}
      [] OTHER -> {"inV", "outV"}

\* BaseNode.to_dictionary.  to_dictionary_keep_id is the variant without the
\* IGNORE_ID case
to_dictionary_keep_id(self) ==
    [field \in BaseFields \cup Fields(self.label) |-> self[field]]
to_dictionary(self) ==
    LET fields == BaseFields \cup Fields(self.label)
        kept == IF self.id = IGNORE_ID THEN fields \ {"id"} ELSE fields
    IN  [field \in kept |-> self[field]]

MetadataNode(projectRoot) ==
    [type |-> "vertex", label |-> "metaData", id |-> BaseNodeId(IGNORE_ID, 0),
     version |-> "0.5.0", positionEncoding |-> "utf-16",
     projectRoot |-> as_uri(absolute(projectRoot))]

ProjectNode(c) ==
    [type |-> "vertex", label |-> "project", id |-> BaseNodeId(NoId, c),
     kind |-> "python"]

DocumentNode(path, c) ==
    [type |-> "vertex", label |-> "document", id |-> BaseNodeId(NoId, c),
     languageId |-> "python", path |-> absolute(path),
     uri |-> as_uri(absolute(path))]

ResultSetNode(c) ==
    [type |-> "vertex", label |-> "resultSet", id |-> BaseNodeId(NoId, c)]

\* Position and Range of lsif/types.py, as dataclasses.asdict gives them
Position(pos) == [line |-> pos[1], character |-> pos[2]]

\* RangeNode, with its start, end and document properties evaluated
RangeNode(range, document, c) ==
    [type |-> "vertex", label |-> "range", id |-> BaseNodeId(NoId, c),
     start |-> range.start, end |-> range.end, document |-> document]

HoverResult(docstring, c) ==
    [type |-> "vertex", label |-> "hoverResult", id |-> BaseNodeId(NoId, c),
     result |-> [contents |-> <<docstring>>]]

DefinitionResult(c) ==
    [type |-> "vertex", label |-> "definitionResult",
     id |-> BaseNodeId(NoId, c)]

ReferenceResult(c) ==
    [type |-> "vertex", label |-> "referenceResult",
     id |-> BaseNodeId(NoId, c)]

\* NextNode and the SingleEdgeBase classes
SingleEdge(label, inV, outV, c) ==
    [type |-> "edge", label |-> label, id |-> BaseNodeId(NoId, c),
     inV |-> inV, outV |-> outV]

ItemNode(document, inVs, outV, c) ==
    [type |-> "edge", label |-> "item", id |-> BaseNodeId(NoId, c),
     inVs |-> inVs, outV |-> outV, document |-> document]

ContainsNode(inVs, outV, c) ==
    [type |-> "edge", label |-> "contains", id |-> BaseNodeId(NoId, c),
     inVs |-> inVs, outV |-> outV]

(* ------------------------- what jedi yields --------------------------- *)

\* a Name of get_names(definitions=True): full_name, name and the two
\* positions
JediDefs ==
    [full_name : FullNames, name : ShortNames,
     start : Positions \cup {NoPos}, end : Positions \cup {NoPos}]

\* a Name of get_names(references=True): index() reads its positions only
JediRefs == [start : Positions \cup {NoPos}, end : Positions \cup {NoPos}]

\* what goto(follow_imports=True) returns: the full_name of each candidate
RECURSIVE SeqsUpTo(_, _)
SeqsUpTo(S, n) ==
    IF n = 0 THEN {<<>>}
    ELSE LET shorter == SeqsUpTo(S, n - 1)
         IN  shorter \cup {Append(q, x) : q \in shorter, x \in S}
Gotos == SeqsUpTo(FullNames, MaxCands)

\* padawan._get_range: both positions are asserted, then a Range is built
RangeAsserts(name) == name.start # NoPos /\ name.end # NoPos
_get_range(name) == [start |-> Position(name.start), end |-> Position(name.end)]

(* --------------------------- definition pass -------------------------- *)

\* def_name = jedi_def.full_name or jedi_def.name
DefName(jedi_def) ==
    IF Truthy(jedi_def.full_name) THEN jedi_def.full_name ELSE jedi_def.name

\* names_to_result_sets[def_name] = result_set.  RegisterFirstWins is the
\* variant that keeps an entry already there (setdefault)
RegisterFirstWins(table, def_name, result_set) ==
    IF def_name \in DOMAIN table THEN table
    ELSE [n \in DOMAIN table \cup {def_name} |->
             IF n = def_name THEN result_set.id ELSE table[n]]
Register(table, def_name, result_set) ==
    [n \in DOMAIN table \cup {def_name} |->
        IF n = def_name THEN result_set.id ELSE table[n]]

\* the nodes one definition occurrence constructs, in construction order
DefinitionNodes(jedi_def, document, c) ==
    LET result_set == ResultSetNode(NthId(c, 0))
        definition_node == RangeNode(_get_range(jedi_def), document.id, NthId(c, 1))
        definition_next_node ==
            SingleEdge("next", result_set.id, definition_node.id, NthId(c, 2))
        hover_node == HoverResult("docstring", NthId(c, 3))
        hover_edge ==
            SingleEdge("textDocument/hover", hover_node.id, result_set.id, NthId(c, 4))
        definition_result_node == DefinitionResult(NthId(c, 5))
        definition_edge ==
            SingleEdge("textDocument/definition", definition_result_node.id,
                       result_set.id, NthId(c, 6))
        item == ItemNode(document.id, <<definition_node.id>>,
                         definition_result_node.id, NthId(c, 7))
    IN  [result_set |-> result_set, definition_node |-> definition_node,
         definition_next_node |-> definition_next_node, hover_node |-> hover_node,
         hover_edge |-> hover_edge,
         definition_result_node |-> definition_result_node,
         definition_edge |-> definition_edge, item |-> item]

\* the writer.write() calls of one definition occurrence, in order.  The
\* variants leave out the write of result_set, and write the Next edge
\* before the Range it leaves
DefinitionWritesNoResultSet(n) ==
    << to_dictionary(n.definition_node),
       to_dictionary(n.definition_next_node), to_dictionary(n.hover_node),
       to_dictionary(n.hover_edge), to_dictionary(n.definition_result_node),
       to_dictionary(n.definition_edge), to_dictionary(n.item) >>
DefinitionWritesNextFirst(n) ==
    << to_dictionary(n.result_set), to_dictionary(n.definition_next_node),
       to_dictionary(n.definition_node), to_dictionary(n.hover_node),
       to_dictionary(n.hover_edge), to_dictionary(n.definition_result_node),
       to_dictionary(n.definition_edge), to_dictionary(n.item) >>
DefinitionWrites(n) ==
    << to_dictionary(n.result_set), to_dictionary(n.definition_node),
       to_dictionary(n.definition_next_node), to_dictionary(n.hover_node),
       to_dictionary(n.hover_edge), to_dictionary(n.definition_result_node),
       to_dictionary(n.definition_edge), to_dictionary(n.item) >>

(* --------------------------- reference pass --------------------------- *)

\* the ResultSet one reference is linked to, NoId when it is skipped:
\* no candidate, or the first candidate's full_name is not registered.
\* The variants take the first candidate that is registered, and take the
\* result_set variable the definition loop left behind
ResolveAnyCandidate(possible_definitions, table) ==
    LET known == {i \in DOMAIN possible_definitions :
                     possible_definitions[i] \in DOMAIN table}
    IN  IF known = {} THEN NoId
        ELSE table[possible_definitions[CHOOSE i \in known : \A j \in known : i <= j]]
ResolveLeakedResultSet(possible_definitions, table) ==
    IF possible_definitions = <<>> THEN NoId
    ELSE IF possible_definitions[1] \notin DOMAIN table THEN NoId
    ELSE CHOOSE id \in {table[n] : n \in DOMAIN table} :
             \A n \in DOMAIN table : table[n] <= id
Resolve(possible_definitions, table) ==
    IF possible_definitions = <<>> THEN NoId
    ELSE IF possible_definitions[1] \notin DOMAIN table THEN NoId
    ELSE table[possible_definitions[1]]

\* the nodes one reference occurrence constructs, in construction order;
\* the last three only when it is linked
ReferenceNodes(jedi_ref, document, result_set_id, c) ==
    LET reference_node == RangeNode(_get_range(jedi_ref), document.id, NthId(c, 0))
        next == SingleEdge("next", result_set_id, reference_node.id, NthId(c, 1))
        reference_result_node == ReferenceResult(NthId(c, 2))
        reference_edge ==
            SingleEdge("textDocument/references", reference_result_node.id,
                       result_set_id, NthId(c, 3))
        item == ItemNode(document.id, <<reference_node.id>>,
                         reference_result_node.id, NthId(c, 4))
    IN  [reference_node |-> reference_node, next |-> next,
         reference_result_node |-> reference_result_node,
         reference_edge |-> reference_edge, item |-> item]

\* the writer.write() calls of one reference occurrence, in order.  The
\* variant writes the Range after the two continue statements
ReferenceWritesRangeWhenLinked(n, result_set_id) ==
    IF result_set_id = NoId THEN <<>>
    ELSE << to_dictionary(n.reference_node), to_dictionary(n.next),
            to_dictionary(n.reference_result_node),
            to_dictionary(n.reference_edge), to_dictionary(n.item) >>
ReferenceWrites(n, result_set_id) ==
    IF result_set_id = NoId THEN << to_dictionary(n.reference_node) >>
    ELSE << to_dictionary(n.reference_node), to_dictionary(n.next),
            to_dictionary(n.reference_result_node),
            to_dictionary(n.reference_edge), to_dictionary(n.item) >>

(* ------------------------------ index() ------------------------------- *)

\* the key a file is looked up under: str(filepath.absolute()).  The
\* variant uses str(filepath)
abs_path_not_absolute(filepath) == filepath
abs_path(filepath) == absolute(filepath)

\* jedi's Script(path=...).path: the path made absolute
script_path(document) == absolute(document.path)

\* [x.id for x in contained_ranges]
RangeIds(ranges) == [i \in DOMAIN ranges |-> ranges[i].id]

\* line 303: contained_ranges is bound to a new list in each turn of the
\* loop over the files.  The variant binds it once, before the loop
ContainedRangesKept(previous) == previous
ContainedRangesOfUnit(previous) == <<>>

NoDocument == [id |-> NoId]

Init ==
    /\ pc = "start"
    /\ out = <<>>
    /\ count = FirstId
    /\ project_path = ProjectPath
    /\ project_node = NoId
    /\ names_to_result_sets = <<>>
    /\ module_path_to_document_node = <<>>
    /\ document_ids = <<>>
    /\ document_node = NoDocument
    /\ contained_ranges = <<>>
    /\ visits = <<>>
    /\ log = <<>>

\* lines 278-287: the metadata and the project record
Start ==
    /\ pc = "start"
    /\ LET mt == MetadataNode(project_path)
           project == ProjectNode(NthId(count, 0))
       IN  /\ out' = out \o << to_dictionary(mt), to_dictionary(project) >>
           /\ project_node' = project.id
           /\ count' = NthId(count, 1)
    /\ pc' = "files"
    /\ UNCHANGED <<project_path, names_to_result_sets,
                   module_path_to_document_node, document_ids, document_node,
                   contained_ranges, visits, log>>


\* history entries: one per occurrence jedi yielded.  name is the def_name
\* of a definition and the first candidate's full_name of a reference
\* (NoCandidate when goto() returned none); range is the id of the
\* occurrence's RangeNode.  An occurrence that ended the run is fatal and
\* has neither
NoCandidate == "<no candidate>"
LogEntry(kind, name, range, fatal) ==
    [visit |-> Len(visits), kind |-> kind, name |-> name, range |-> range,
     fatal |-> fatal]

\* lines 289-303: the next file of the glob; its DocumentNode is looked up
\* or created and written.  The glob is not assumed to yield a path once
\* only, so that the lookup can find a DocumentNode
BeginUnit(file) ==
    /\ pc = "files"
    /\ Len(visits) + Len(log) < MaxInputs
    /\ LET filepath == Path(project_path.root, <<project_path.rel, file>>)
           key == abs_path(filepath)
           found == key \in DOMAIN module_path_to_document_node
           document == IF found THEN module_path_to_document_node[key]
                       ELSE DocumentNode(filepath, NthId(count, 0))
           stored == script_path(document)
       IN  /\ out' = IF found THEN out ELSE Append(out, to_dictionary(document))
           /\ count' = IF found THEN count ELSE NthId(count, 1)
           /\ document_node' = document
           /\ document_ids' = Append(document_ids, document.id)
           /\ module_path_to_document_node' =
                 [k \in DOMAIN module_path_to_document_node \cup {stored} |->
                     IF k = stored THEN document
                     ELSE module_path_to_document_node[k]]
           /\ visits' = Append(visits, absolute(filepath))
    /\ contained_ranges' = ContainedRangesOfUnit(contained_ranges)
    /\ pc' = "defs"
    /\ UNCHANGED <<project_path, project_node, names_to_result_sets, log>>

\* lines 310-341: one definition of the file.  An occurrence without a
\* name fails the assert of line 315 after its ResultSetNode is built; one
\* without a position fails _get_range's after the name is registered
DefStep(jedi_def) ==
    /\ pc = "defs"
    /\ Len(visits) + Len(log) < MaxInputs
    /\ LET def_name == DefName(jedi_def)
           result_set == ResultSetNode(NthId(count, 0))
       IN  IF ~Truthy(def_name)
           THEN /\ pc' = "aborted"
                /\ count' = NthId(count, 1)
                /\ log' = Append(log, LogEntry("def", None, NoId, TRUE))
                /\ UNCHANGED <<out, names_to_result_sets, contained_ranges>>
           ELSE IF ~RangeAsserts(jedi_def)
           THEN /\ pc' = "aborted"
                /\ count' = NthId(count, 1)
                /\ names_to_result_sets' =
                      Register(names_to_result_sets, def_name, result_set)
                /\ log' = Append(log, LogEntry("def", None, NoId, TRUE))
                /\ UNCHANGED <<out, contained_ranges>>
           ELSE LET n == DefinitionNodes(jedi_def, document_node, count)
                IN  /\ pc' = "defs"
                    /\ names_to_result_sets' =
                          Register(names_to_result_sets, def_name, n.result_set)
                    /\ contained_ranges' =
                          Append(contained_ranges, n.definition_node)
                    /\ out' = out \o DefinitionWrites(n)
                    /\ count' = NthId(count, 8)
                    /\ log' = Append(log, LogEntry("def", def_name,
                                                   n.definition_node.id, FALSE))
    /\ UNCHANGED <<project_path, project_node, module_path_to_document_node,
                   document_ids, document_node, visits>>

\* lines 343-378: one reference of the file; the first one is taken when
\* the definitions are exhausted
RefStep(jedi_ref, possible_definitions) ==
    /\ pc \in {"defs", "refs"}
    /\ Len(visits) + Len(log) < MaxInputs
    /\ LET first == IF possible_definitions = <<>> THEN NoCandidate
                    ELSE possible_definitions[1]
       IN  IF ~RangeAsserts(jedi_ref)
           THEN /\ pc' = "aborted"
                /\ log' = Append(log, LogEntry("ref", None, NoId, TRUE))
                /\ UNCHANGED <<out, count, contained_ranges>>
           ELSE LET result_set_id == Resolve(possible_definitions,
                                             names_to_result_sets)
                    n == ReferenceNodes(jedi_ref, document_node, result_set_id,
                                        count)
                IN  /\ pc' = "refs"
                    /\ contained_ranges' =
                          Append(contained_ranges, n.reference_node)
                    /\ out' = out \o ReferenceWrites(n, result_set_id)
                    /\ count' = IF result_set_id = NoId THEN NthId(count, 1)
                                ELSE NthId(count, 5)
                    /\ log' = Append(log, LogEntry("ref", first,
                                                   n.reference_node.id, FALSE))
    /\ UNCHANGED <<project_path, project_node, names_to_result_sets,
                   module_path_to_document_node, document_ids, document_node,
                   visits>>

\* line 385: the definitions and the references are exhausted; the file's
\* Contains edge
EndUnit ==
    /\ pc \in {"defs", "refs"}
    /\ out' = Append(out, to_dictionary(
                  ContainsNode(RangeIds(contained_ranges), document_node.id,
                               NthId(count, 0))))
    /\ count' = NthId(count, 1)
    /\ pc' = "files"
    /\ UNCHANGED <<project_path, project_node, names_to_result_sets,
                   module_path_to_document_node, document_ids, document_node,
                   contained_ranges, visits, log>>

\* line 389: the glob is exhausted; the project's Contains edge
Finish ==
    /\ pc = "files"
    /\ out' = Append(out, to_dictionary(
                  ContainsNode(document_ids, project_node, NthId(count, 0))))
    /\ count' = NthId(count, 1)
    /\ pc' = "done"
    /\ UNCHANGED <<project_path, project_node, names_to_result_sets,
                   module_path_to_document_node, document_ids, document_node,
                   contained_ranges, visits, log>>

Next ==
    \/ Start
    \/ \E file \in Files : BeginUnit(file)
    \/ \E jedi_def \in JediDefs : DefStep(jedi_def)
    \/ \E jedi_ref \in JediRefs, possible_definitions \in Gotos :
          RefStep(jedi_ref, possible_definitions)
    \/ EndUnit
    \/ Finish

Spec == Init /\ [][Next]_vars

(* ------------------------ reading the output -------------------------- *)

SetOf(seq) == {seq[i] : i \in DOMAIN seq}
HasId(record) == "id" \in DOMAIN record
Labelled(label) == {i \in DOMAIN out : out[i].label = label}
SingleEdgeLabels ==
    {"next", "textDocument/hover", "textDocument/definition",
     "textDocument/references"}

\* the ids a record mentions
Mentions(record) ==
    CASE record.label = "range" -> {record.document}
      [] record.label \in SingleEdgeLabels -> {record.inV, record.outV}
      [] record.label = "item" ->
            SetOf(record.inVs) \cup {record.outV, record.document}
      [] record.label = "contains" -> SetOf(record.inVs) \cup {record.outV}
      [] OTHER -> {}

\* the targets of the Next edges that leave a Range
NextOf(range) == {out[i].inV : i \in {j \in Labelled("next") : out[j].outV = range}}
\* where a Range was written
WrittenAt(range) == {i \in Labelled("range") : out[i].id = range}
\* the edges and results that attach to a Range, its file's Contains aside
Attached(range) ==
    {i \in DOMAIN out :
        \/ out[i].label \in SingleEdgeLabels /\ range \in {out[i].inV, out[i].outV}
        \/ out[i].label = "item" /\ range \in SetOf(out[i].inVs)}
\* a Range that was written alone: what follows it is the next reference's
\* Range or the file's Contains edge
WrittenAlone(range) ==
    /\ Cardinality(WrittenAt(range)) = 1
    /\ \A i \in WrittenAt(range) :
          i = Len(out) \/ out[i + 1].label \in {"range", "contains"}
    /\ Attached(range) = {}

\* the occurrences of the history
Occs == {k \in DOMAIN log : ~log[k].fatal}
Defs == {k \in Occs : log[k].kind = "def"}
Refs == {k \in Occs : log[k].kind = "ref"}
DefsOf(name) == {k \in Defs : log[k].name = name}
RangesOfVisit(v) == {log[k].range : k \in {j \in Occs : log[j].visit = v}}
Linked(k) == NextOf(log[k].range) # {}

\* the visits whose Contains edge is written, and the v-th Contains edge
Completed ==
    IF pc \in {"defs", "refs", "aborted"} THEN Len(visits) - 1 ELSE Len(visits)
ContainsAt(v) ==
    {i \in Labelled("contains") :
        Cardinality({j \in Labelled("contains") : j <= i}) = v}
DocumentsOf(path) == {i \in Labelled("document") : out[i].uri = as_uri(path)}

(* ------------------------------ claims -------------------------------- *)

\* C1: the ids of the records written in one run are positive, pairwise
\* distinct and increase in the order of writing, which is the order of
\* construction; every id handed out lies below the generator's next value;
\* the metadata record is the only one without an id.
C1_IdsDistinctIncreasing ==
    /\ \A i \in DOMAIN out :
          IF HasId(out[i]) THEN out[i].id >= 1 /\ out[i].id < count
          ELSE out[i].label = "metaData"
    /\ \A i, j \in DOMAIN out :
          (i < j /\ HasId(out[i]) /\ HasId(out[j])) => out[i].id < out[j].id

C1_Witness ==
    /\ pc = "done"
    /\ Cardinality(SetOf(visits)) = 2
    /\ Defs # {}
    /\ \E k \in Refs : Linked(k)

\* C2: once the run has started, exactly one record is labelled metaData;
\* it is the only record without an id field and it carries label and
\* version; every other record carries type, label and id.
C2_MetadataShape ==
    pc # "start" =>
        /\ Cardinality(Labelled("metaData")) = 1
        /\ \A i \in DOMAIN out :
              /\ {"type", "label"} \subseteq DOMAIN out[i]
              /\ HasId(out[i]) <=> out[i].label # "metaData"
        /\ \A i \in Labelled("metaData") :
              /\ "version" \in DOMAIN out[i]
              /\ out[i].version = "0.5.0"
              /\ out[i].type = "vertex"

C2_Witness == pc = "done" /\ Len(out) > 3 /\ ~HasId(out[1])

\* C3: the Contains edge written at the end of a visit leaves the visited
\* file's Document and holds exactly the ids of the Ranges created during
\* that visit, for definitions and references, linked or not; the Ranges
\* written are those of the history, and the list of the running visit
\* holds that visit's Ranges only.
C3_DocumentContains ==
    /\ {out[i].id : i \in Labelled("range")} = {log[k].range : k \in Occs}
    /\ \A v \in 1..Completed :
          /\ Cardinality(ContainsAt(v)) = 1
          /\ Cardinality(DocumentsOf(visits[v])) = 1
          /\ \A i \in ContainsAt(v), d \in DocumentsOf(visits[v]) :
                /\ out[i].outV = out[d].id
                /\ SetOf(out[i].inVs) = RangesOfVisit(v)
    /\ pc \in {"defs", "refs"} =>
          SetOf(RangeIds(contained_ranges)) = RangesOfVisit(Len(visits))

C3_Witness ==
    /\ pc = "done"
    /\ Len(visits) = 2
    /\ RangesOfVisit(1) # {}
    /\ RangesOfVisit(2) # {}
    /\ \E k \in Refs : ~Linked(k)

\* C4: a Document is written once per distinct absolute path, also when a
\* path is visited again; after the run the one Contains edge that leaves
\* the Project holds exactly the ids of the Documents written.
C4_ProjectContains ==
    /\ \A i, j \in Labelled("document") : out[i].uri = out[j].uri => i = j
    /\ Cardinality(Labelled("document")) = Cardinality(SetOf(visits))
    /\ pc = "done" =>
          LET edges == {i \in Labelled("contains") : out[i].outV = project_node}
          IN  /\ Cardinality(edges) = 1
              /\ \A i \in Labelled("project") : out[i].id = project_node
              /\ \A i \in edges :
                    SetOf(out[i].inVs) = {out[d].id : d \in Labelled("document")}

C4_Witness ==
    /\ pc = "done"
    /\ Len(visits) = 3
    /\ Cardinality(SetOf(visits)) = 2

\* C5: for a name with exactly one definition occurrence, the Next edge of
\* every linked reference to it has the inV of the definition Range's Next
\* edge, which is a ResultSet.
C5_SharedResultSet ==
    \A name \in Names :
        Cardinality(DefsOf(name)) = 1 =>
            \A d \in DefsOf(name) :
                /\ Cardinality(NextOf(log[d].range)) = 1
                /\ NextOf(log[d].range) \subseteq
                      {out[i].id : i \in Labelled("resultSet")}
                /\ \A k \in Refs :
                      log[k].name = name =>
                          NextOf(log[k].range) \subseteq NextOf(log[d].range)

C5_Witness ==
    \E name \in Names :
        /\ Cardinality(DefsOf(name)) = 1
        /\ Cardinality(Defs) = 2
        /\ Cardinality({k \in Refs : log[k].name = name /\ Linked(k)}) = 2

\* C6: a reference whose goto() returns no candidate writes one Range and
\* nothing else; the Range is in its file's Contains edge; the run goes on.
C6_NoCandidate ==
    \A k \in Refs :
        log[k].name = NoCandidate =>
            /\ WrittenAlone(log[k].range)
            /\ log[k].visit <= Completed =>
                  \A i \in ContainsAt(log[k].visit) :
                      log[k].range \in SetOf(out[i].inVs)
            /\ (log[k].visit > Completed /\ pc # "aborted") =>
                  log[k].range \in SetOf(RangeIds(contained_ranges))
            /\ k = Len(log) => pc # "aborted"

C6_Witness ==
    /\ pc = "done"
    /\ \E k \in Refs :
          /\ log[k].name = NoCandidate
          /\ \E j \in Refs : j > k /\ log[j].visit = log[k].visit /\ Linked(j)

\* C7 as claimed: as many ResultSet records as distinct definition names.
C7_OneResultSetPerName ==
    Cardinality(Labelled("resultSet")) = Cardinality({log[k].name : k \in Defs})

\* C7, amended: one ResultSet record per definition occurrence, which is
\* one per distinct name only while no name is defined twice; the table
\* holds one entry per distinct name.
C7_OneResultSetPerOccurrence ==
    /\ Cardinality(Labelled("resultSet")) = Cardinality(Defs)
    /\ pc # "aborted" =>
          DOMAIN names_to_result_sets = {log[k].name : k \in Defs}
    /\ \A i \in Labelled("resultSet") :
          \E d \in Defs : NextOf(log[d].range) = {out[i].id}

C7_Witness ==
    \E d1, d2 \in Defs :
        /\ d1 < d2
        /\ log[d1].name = log[d2].name
        /\ log[d1].visit = log[d2].visit
        /\ Cardinality(Labelled("resultSet")) = 2

\* the latest definition of a name before occurrence k
LatestDef(name, k) ==
    CHOOSE d \in DefsOf(name) : d < k /\ \A e \in DefsOf(name) : e < k => e <= d

\* C8: a second registration of a name replaces the first without an
\* error; a reference is linked, by its Next edge and by its
\* textDocument/references edge, to the ResultSet of the latest definition
\* of the name registered before the reference was processed.
C8_LastWriteWins ==
    /\ \A d \in Defs : d = Len(log) => pc # "aborted"
    /\ pc # "aborted" =>
          \A name \in DOMAIN names_to_result_sets :
              NextOf(log[LatestDef(name, Len(log) + 1)].range) =
                  {names_to_result_sets[name]}
    /\ \A k \in Refs :
          (\E d \in DefsOf(log[k].name) : d < k) =>
              LET target == NextOf(log[LatestDef(log[k].name, k)].range)
              IN  /\ Cardinality(target) = 1
                  /\ NextOf(log[k].range) = target
                  /\ WrittenAt(log[k].range) # {}
                  /\ \A i \in WrittenAt(log[k].range) :
                        /\ i + 3 <= Len(out)
                        /\ out[i + 1].label = "next"
                        /\ out[i + 3].label = "textDocument/references"
                        /\ {out[i + 3].outV} = target
                        /\ out[i + 3].inV = out[i + 2].id
                        /\ out[i + 2].label = "referenceResult"

C8_Witness ==
    \E k \in Refs :
        \E d1, d2 \in DefsOf(log[k].name) :
            /\ d1 < k
            /\ k < d2
            /\ Linked(k)
            /\ names_to_result_sets[log[k].name] \notin NextOf(log[k].range)

\* C9: a reference whose first candidate's name is not registered when the
\* reference is processed writes its Range only, is not linked when the
\* name is registered later, and does not end the run; a run that ends
\* normally has written the project's Contains edge last.
C9_UnregisteredName ==
    /\ \A k \in Refs :
          (log[k].name # NoCandidate /\ ~\E d \in DefsOf(log[k].name) : d < k) =>
              /\ WrittenAlone(log[k].range)
              /\ k = Len(log) => pc # "aborted"
    /\ pc = "aborted" => log # <<>> /\ log[Len(log)].fatal
    /\ pc = "done" =>
          /\ out[Len(out)].label = "contains"
          /\ out[Len(out)].outV = project_node

C9_Witness ==
    /\ pc = "done"
    /\ \E k \in Refs :
          /\ log[k].name \in Names
          /\ ~Linked(k)
          /\ \E d \in DefsOf(log[k].name) :
                /\ k < d
                /\ \E j \in Refs : d < j /\ log[j].name = log[k].name /\ Linked(j)

\* C10: every id a record mentions is allocated, and it is the id of a
\* record written earlier (which holds of the Contains edges too); the
\* document of a Range is a Document written earlier.
C10_MentionsWritten ==
    \A i \in DOMAIN out :
        /\ \A id \in Mentions(out[i]) :
              /\ id >= 1 /\ id < count
              /\ \E j \in 1..(i - 1) : HasId(out[j]) /\ out[j].id = id
        /\ out[i].label = "range" =>
              \E j \in 1..(i - 1) :
                  out[j].label = "document" /\ out[j].id = out[i].document

C10_Witness ==
    /\ pc = "done"
    /\ Labelled("item") # {}
    /\ \E v \in 2..Len(visits) : \E u \in 1..(v - 1) : visits[u] = visits[v]
    /\ RangesOfVisit(Len(visits)) # {}

=============================================================================
